---------------------------- MODULE Spec2Model ----------------------------
(***************************************************************************)
(* Model of the c-list library (src/src/list.c, src/include/list.h): a     *)
(* doubly linked list with a shared cursor, an optional sort callback, an  *)
(* owning (alloc) and a borrowing mode, guarded by one semaphore.          *)
(*                                                                         *)
(* Memory is modelled as three disjoint address ranges: the caller's       *)
(* buffers, the heap blocks malloc returns for payload copies, and the     *)
(* heap blocks malloc returns for list_element_t nodes.  malloc returns    *)
(* NULL or a free address of the range; the addresses of a range being     *)
(* interchangeable, the lowest free one stands for all of them.            *)
(***************************************************************************)
EXTENDS Integers, Sequences, FiniteSets

\* The caller's buffers: the three strings examples/list_sort.c adds,
\* "element1", "element2", "element3"; buffer k holds key k.
NumBufs == 3
\* Number of threads calling the list concurrently.
NumThreads == 2
\* Number of heap blocks available for list_element_t nodes, and as many
\* for the payload copies of the owning mode.
NumNodes == 3
NumBlocks == NumNodes

NULL == 0

Bufs == 1..NumBufs
Blocks == (NumBufs + 1)..(NumBufs + NumBlocks)
Nodes == (NumBufs + NumBlocks + 1)..(NumBufs + NumBlocks + NumNodes)
Payloads == Bufs \cup Blocks
Threads == 1..NumThreads

VARIABLES
    alloc,      \* list->alloc
    sort,       \* list->sort: "NULL" or "lt" (the callback of the example)
    first,      \* list->first
    last,       \* list->last
    curr,       \* list->curr
    count,      \* list->count
    sem,        \* list->sem
    next,       \* list_element_t.next of every node address
    prev,       \* list_element_t.prev of every node address
    e,          \* list_element_t.e of every node address
    nodeLive,   \* node addresses currently allocated
    blkLive,    \* payload-copy addresses currently allocated
    mem,        \* content (the key) of every buffer and payload copy
    op,         \* name of the last public function called
    arg,        \* the reference given to list_remove, the buffer the caller wrote
    ret,        \* its return value
    net,        \* successful adds minus successful removes so far
    walk,       \* elements visited by the running head()/next() traversal, -1 if none
    walkDone,   \* the running traversal has returned NULL
    pc,         \* concurrent callers: the statement each thread is at
    fn,         \* the function each thread is executing
    bufOf,      \* its argument e
    eltOf,      \* its local list_element
    tmpOf,      \* its local tmp
    regOf,      \* the value of list->count it has loaded for count++ / count--
    lin,        \* the key sequence of the calls so far, taken in the order of sem_wait
    seen        \* the values head() and next() have returned to each thread, in order

listVars == <<first, last, curr, count, next, prev, e>>
heapVars == <<nodeLive, blkLive, mem>>
histVars == <<op, arg, ret, net, walk, walkDone>>
thrVars == <<pc, fn, bufOf, eltOf, tmpOf, regOf, lin, seen>>
vars == <<alloc, sort, sem, listVars, heapVars, histVars, thrVars>>

-----------------------------------------------------------------------------
(* Helpers over the chain.                                                 *)

\* The nodes reached by following next from n, as a sequence (the chain a
\* head()/next() iteration walks).
RECURSIVE ChainFrom(_, _)
ChainFrom(n, fuel) ==
    IF n = NULL \/ fuel = 0 THEN <<>>
    ELSE <<n>> \o ChainFrom(next[n], fuel - 1)

Chain == ChainFrom(first, NumNodes + 1)

\* The nodes reached by following prev from the tail.
RECURSIVE BackFrom(_, _)
BackFrom(n, fuel) ==
    IF n = NULL \/ fuel = 0 THEN <<>>
    ELSE <<n>> \o BackFrom(prev[n], fuel - 1)

Range(s) == {s[i] : i \in 1..Len(s)}

ChainNodes == Range(Chain)

ElemsOf(s) == [i \in 1..Len(s) |-> e[s[i]]]

KeysOf(s) == [i \in 1..Len(s) |-> mem[e[s[i]]]]

\* Index of node n in sequence s (0 if absent)
Pos(s, n) == IF \E i \in 1..Len(s) : s[i] = n
             THEN CHOOSE i \in 1..Len(s) : s[i] = n
             ELSE 0

-----------------------------------------------------------------------------
(* The semaphore.                                                          *)

sem_init == 1

\* Mutant: sem_wait does not block.
sem_wait_nonblocking(s) == TRUE

\* sem_wait blocks until the value is positive and decrements it
sem_wait_enabled(s) == s > 0
sem_wait(s) == s - 1
sem_post(s) == s + 1


-----------------------------------------------------------------------------
(* The sort callback of examples/list_sort.c: true iff existing < candidate *)

\* Mutant: the callback compares with <= instead of <.
sort_le(existing, candidate) == mem[existing] <= mem[candidate]

sort_lt(existing, candidate) == mem[existing] < mem[candidate]

SortCb(existing, candidate) == sort = "lt" /\ sort_lt(existing, candidate)

-----------------------------------------------------------------------------
(* list_create_element: malloc of the node, then (owning mode) malloc of   *)
(* the copy.  n and p are the results of the two malloc calls.             *)

\* The results malloc can give in a range: NULL, or a free address.  The
\* model is symmetric in the addresses of a range, so the free address is
\* taken to be the lowest one (a freed address is reused first).
Lowest(S) == CHOOSE a \in S : \A x \in S : a <= x
Malloc(free) == IF free = {} THEN {NULL} ELSE {NULL, Lowest(free)}

MallocNode == Malloc(Nodes \ nodeLive)
MallocBlock == IF alloc THEN Malloc(Blocks \ blkLive) ELSE {NULL}

\* Mutant: the node is not freed when the copy cannot be allocated.
list_create_element_leak(b, n, p) ==
    IF n = NULL
    THEN [le |-> NULL, pe |-> NULL, nodes |-> nodeLive, blks |-> blkLive]
    ELSE IF alloc
         THEN IF p = NULL
              THEN [le |-> NULL, pe |-> NULL, nodes |-> nodeLive \cup {n},
                    blks |-> blkLive]
              ELSE [le |-> n, pe |-> p, nodes |-> nodeLive \cup {n},
                    blks |-> blkLive \cup {p}]
         ELSE [le |-> n, pe |-> b, nodes |-> nodeLive \cup {n}, blks |-> blkLive]

\* Mutant: in owning mode the element keeps the caller's reference.
list_create_element_alias(b, n, p) ==
    IF n = NULL
    THEN [le |-> NULL, pe |-> NULL, nodes |-> nodeLive, blks |-> blkLive]
    ELSE IF alloc /\ p = NULL
         THEN [le |-> NULL, pe |-> NULL, nodes |-> nodeLive, blks |-> blkLive]
         ELSE [le |-> n, pe |-> b, nodes |-> nodeLive \cup {n},
               blks |-> IF alloc THEN blkLive \cup {p} ELSE blkLive]

list_create_element(b, n, p) ==
    IF n = NULL
    THEN [le |-> NULL, pe |-> NULL, nodes |-> nodeLive, blks |-> blkLive]
    ELSE IF alloc
         THEN IF p = NULL
              THEN \* free(list_element); return NULL
                   [le |-> NULL, pe |-> NULL, nodes |-> nodeLive, blks |-> blkLive]
              ELSE [le |-> n, pe |-> p, nodes |-> nodeLive \cup {n},
                    blks |-> blkLive \cup {p}]
         ELSE [le |-> n, pe |-> b, nodes |-> nodeLive \cup {n}, blks |-> blkLive]

-----------------------------------------------------------------------------
(* Link updates of the three insertions.  Each yields the new values of    *)
(* first, last, curr, next and prev for the new (zeroed) node n.           *)

Links(f, l, c, nx, pv) == [first |-> f, last |-> l, curr |-> c, next |-> nx, prev |-> pv]

\* list->last = list->first = list->curr = list_element
LinkSole(n) == Links(n, n, n, next, prev)

\* list->last->next = list_element; list_element->prev = list->last; list->last = list_element
LinkAfterLast(n) ==
    Links(first, n, curr, [next EXCEPT ![last] = n], [prev EXCEPT ![n] = last])

\* Mutant: the insertion before tmp forgets tmp->prev = list_element.
LinkBefore_prev_kept(tmp, n) ==
    IF prev[tmp] = NULL
    THEN Links(n, last, curr, [next EXCEPT ![n] = tmp], prev)
    ELSE Links(first, last, curr,
               [next EXCEPT ![prev[tmp]] = n, ![n] = tmp],
               [prev EXCEPT ![n] = prev[tmp]])

\* the element is linked just before tmp
LinkBefore(tmp, n) ==
    IF prev[tmp] = NULL
    THEN Links(n, last, curr, [next EXCEPT ![n] = tmp], [prev EXCEPT ![tmp] = n])
    ELSE Links(first, last, curr,
               [next EXCEPT ![prev[tmp]] = n, ![n] = tmp],
               [prev EXCEPT ![n] = prev[tmp], ![tmp] = n])

\* Mutant: the scan goes on to the last node for which the callback returns
\* false.
RECURSIVE SortScan_last_false(_, _)
SortScan_last_false(tmp, b) ==
    IF tmp = NULL THEN NULL
    ELSE LET rest == SortScan_last_false(next[tmp], b) IN
         IF rest # NULL THEN rest
         ELSE IF ~SortCb(e[tmp], b) THEN tmp ELSE NULL

\* Mutant: the scan stops at the first node for which the callback returns true.
RECURSIVE SortScan_true(_, _)
SortScan_true(tmp, b) ==
    IF tmp = NULL THEN NULL
    ELSE IF SortCb(e[tmp], b) THEN tmp
    ELSE SortScan_true(next[tmp], b)

\* The while loop of list_add: the first node from tmp on for which the
\* callback returns false, NULL if it returns true up to the end.
RECURSIVE SortScan(_, _)
SortScan(tmp, b) ==
    IF tmp = NULL THEN NULL
    ELSE IF ~SortCb(e[tmp], b) THEN tmp
    ELSE SortScan(next[tmp], b)

\* The while loop of list_add: the nodes on which the callback is invoked,
\* in order; the loop leaves at the first node for which it returns false.
RECURSIVE sort_calls(_, _)
sort_calls(tmp, b) ==
    IF tmp = NULL THEN <<>>
    ELSE IF ~SortCb(e[tmp], b) THEN <<tmp>>
    ELSE <<tmp>> \o sort_calls(next[tmp], b)

\* Mutant: without callback list_add links the element at the head.
add_link_unsorted_head(n, b) ==
    IF first = NULL THEN LinkSole(n)
    ELSE IF sort # "NULL"
         THEN LET tmp == SortScan(first, b) IN
              IF tmp # NULL THEN LinkBefore(tmp, n) ELSE LinkAfterLast(n)
         ELSE LinkBefore(first, n)

add_link(n, b) ==
    IF first = NULL THEN LinkSole(n)
    ELSE IF sort # "NULL"
         THEN LET tmp == SortScan(first, b) IN
              IF tmp # NULL THEN LinkBefore(tmp, n) ELSE LinkAfterLast(n)
         ELSE LinkAfterLast(n)

\* Mutant: list_add_head places the element as list_add does.
add_head_link_as_add(n, b) == add_link(n, b)

\* Mutant: list_add_head forgets list->first = list_element.
add_head_link_first_kept(n, b) ==
    IF first = NULL THEN LinkSole(n)
    ELSE Links(first, last, curr, [next EXCEPT ![n] = first], [prev EXCEPT ![first] = n])

add_head_link(n, b) ==
    IF first = NULL THEN LinkSole(n)
    ELSE Links(n, last, curr, [next EXCEPT ![n] = first], [prev EXCEPT ![first] = n])

add_tail_link(n, b) ==
    IF last = NULL THEN LinkSole(n)
    ELSE LinkAfterLast(n)

-----------------------------------------------------------------------------
(* History kept beside the program state.                                  *)

\* Any call other than head()/next() ends the running traversal.
WalkReset == walk' = -1 /\ walkDone' = FALSE

\* A call of the single caller (no concurrent caller is running).
Called(name, a, r) == op' = name /\ arg' = a /\ ret' = r /\ UNCHANGED thrVars

-----------------------------------------------------------------------------
(* Insertion: list_add, list_add_head, list_add_tail.                      *)

\* The common shape of the three functions; lk is the link update of the
\* function for the node n (used when the element was created).
Insert(name, b, n, p, lk) ==
    LET ce == list_create_element(b, n, p) IN
    IF ce.le = NULL
    THEN \* Unable to create list element: return -1
         /\ Called(name, NULL, -1)
         /\ nodeLive' = ce.nodes
         /\ blkLive' = ce.blks
         /\ WalkReset
         /\ UNCHANGED <<alloc, sort, sem, listVars, mem, net>>
    ELSE /\ sem_wait_enabled(sem)
         /\ first' = lk.first
         /\ last' = lk.last
         /\ curr' = lk.curr
         /\ next' = lk.next
         /\ prev' = lk.prev
         /\ e' = [e EXCEPT ![ce.le] = ce.pe]
         /\ mem' = IF alloc THEN [mem EXCEPT ![ce.pe] = mem[b]] ELSE mem
         /\ nodeLive' = ce.nodes
         /\ blkLive' = ce.blks
         /\ count' = count + 1
         /\ sem' = sem_post(sem_wait(sem))
         /\ Called(name, NULL, 0)
         /\ net' = net + 1
         /\ WalkReset
         /\ UNCHANGED <<alloc, sort>>

list_add(b) ==
    \E n \in MallocNode, p \in MallocBlock : Insert("add", b, n, p, add_link(n, b))

list_add_head(b) ==
    \E n \in MallocNode, p \in MallocBlock : Insert("add_head", b, n, p, add_head_link(n, b))

list_add_tail(b) ==
    \E n \in MallocNode, p \in MallocBlock : Insert("add_tail", b, n, p, add_tail_link(n, b))

-----------------------------------------------------------------------------
(* Queries and cursor navigation.                                          *)

ElemOf(n) == IF n # NULL THEN e[n] ELSE NULL

list_get_count ==
    /\ sem_wait_enabled(sem)
    /\ sem' = sem_post(sem_wait(sem))
    /\ Called("get_count", NULL, count)
    /\ WalkReset
    /\ UNCHANGED <<alloc, sort, listVars, heapVars, net>>

\* The shape of the four navigation functions: the cursor moves to c.
Navigate(name, c) ==
    /\ sem_wait_enabled(sem)
    /\ curr' = c
    /\ sem' = sem_post(sem_wait(sem))
    /\ Called(name, NULL, ElemOf(c))
    /\ UNCHANGED <<alloc, sort, first, last, count, next, prev, e, heapVars, net>>

\* Mutant: next() moves the cursor two nodes on.
get_next_curr_skip ==
    IF curr # NULL
    THEN IF next[curr] # NULL THEN next[next[curr]] ELSE NULL
    ELSE curr

\* Mutant: next() restarts from the head when the cursor is NULL.
get_next_curr_wrap == IF curr # NULL THEN next[curr] ELSE first

get_next_curr == IF curr # NULL THEN next[curr] ELSE curr

\* Mutant: prev() restarts from the tail when the cursor is NULL.
get_prev_curr_wrap == IF curr # NULL THEN prev[curr] ELSE last

get_prev_curr == IF curr # NULL THEN prev[curr] ELSE curr

list_get_head ==
    /\ Navigate("get_head", first)
    /\ walk' = IF first # NULL THEN 1 ELSE 0
    /\ walkDone' = (ElemOf(first) = NULL)

list_get_tail ==
    /\ Navigate("get_tail", last)
    /\ WalkReset

list_get_next ==
    /\ Navigate("get_next", get_next_curr)
    /\ IF walk >= 0 /\ ~walkDone
       THEN IF ElemOf(get_next_curr) # NULL
            THEN walk' = walk + 1 /\ walkDone' = FALSE
            ELSE walk' = walk /\ walkDone' = TRUE
       ELSE WalkReset

list_get_prev ==
    /\ Navigate("get_prev", get_prev_curr)
    /\ WalkReset

-----------------------------------------------------------------------------
(* Removal: list_remove, list_remove_head, list_remove_tail.               *)

\* free(): the address leaves the live set.  The fields of a freed node and
\* the content of a freed copy are cleared: the next malloc of the address
\* is followed by memset/memcpy, so the stale content is never read.
Freed(f, a) == [f EXCEPT ![a] = NULL]

\* Search for the list element in the list
RECURSIVE remove_find(_, _)
remove_find(tmp, r) ==
    IF tmp = NULL THEN NULL
    ELSE IF e[tmp] = r THEN tmp
    ELSE remove_find(next[tmp], r)

\* Mutant: list_remove moves the cursor to the successor of the node.
remove_curr_next(tmp) == IF tmp = curr THEN next[tmp] ELSE curr

\* Mutant: list_remove leaves the cursor on the node it frees.
remove_curr_kept(tmp) == curr

\* Update current element if required
remove_curr(tmp) == IF tmp = curr THEN prev[tmp] ELSE curr

\* Set next element: ret = tmp->next
remove_ret(tmp) == next[tmp]

\* Mutant: list_remove frees the node only.
remove_frees_none(tmp) == {}

\* Release memory: the payload blocks list_remove frees
remove_frees(tmp) == IF alloc /\ e[tmp] # NULL THEN {e[tmp]} ELSE {}

\* Mutant: the not-found return forgets sem_post.
remove_notfound_sem_held(s) == sem_wait(s)

\* The element is not part of the list: sem_post, return NULL
remove_notfound_sem(s) == sem_post(sem_wait(s))

list_remove(r) ==
    /\ sem_wait_enabled(sem)
    /\ LET tmp == remove_find(first, r) IN
       IF tmp = NULL
       THEN /\ sem' = remove_notfound_sem(sem)
            /\ Called("remove", r, NULL)
            /\ WalkReset
            /\ UNCHANGED <<alloc, sort, listVars, heapVars, net>>
       ELSE /\ first' = IF tmp = first THEN next[tmp] ELSE first
            /\ last' = IF tmp = last THEN prev[tmp] ELSE last
            /\ curr' = remove_curr(tmp)
            /\ next' = Freed(IF prev[tmp] # NULL
                             THEN [next EXCEPT ![prev[tmp]] = next[tmp]]
                             ELSE next, tmp)
            /\ prev' = Freed(IF next[tmp] # NULL
                             THEN [prev EXCEPT ![next[tmp]] = prev[tmp]]
                             ELSE prev, tmp)
            /\ count' = count - 1
            /\ e' = Freed(e, tmp)
            /\ blkLive' = blkLive \ remove_frees(tmp)
            /\ mem' = [a \in DOMAIN mem |->
                         IF a \in remove_frees(tmp) THEN NULL ELSE mem[a]]
            /\ nodeLive' = nodeLive \ {tmp}
            /\ sem' = sem_post(sem_wait(sem))
            /\ Called("remove", r, remove_ret(tmp))
            /\ net' = net - 1
            /\ WalkReset
            /\ UNCHANGED <<alloc, sort>>

\* Mutant: list_remove_head leaves the cursor where it is.
remove_head_curr_kept == curr

\* Update current element if required
remove_head_curr == IF curr # NULL /\ curr = first THEN next[first] ELSE curr

remove_tail_curr == IF curr # NULL /\ curr = last THEN prev[last] ELSE curr

\* The payload blocks list_remove_head / list_remove_tail free: only the
\* node is freed, the element is returned to the caller.
remove_end_frees(tmp) == {}

\* The shape of list_remove_head and list_remove_tail once the node tmp,
\* the new cursor c and the new first/last/next/prev are known.
RemoveEnd(name, tmp, c, lk) ==
    /\ sem_wait_enabled(sem)
    /\ sem' = sem_post(sem_wait(sem))
    /\ Called(name, NULL, ElemOf(tmp))
    /\ curr' = c
    /\ WalkReset
    /\ IF tmp # NULL
       THEN /\ first' = lk.first
            /\ last' = lk.last
            /\ next' = Freed(lk.next, tmp)
            /\ prev' = Freed(lk.prev, tmp)
            /\ e' = Freed(e, tmp)
            /\ count' = count - 1
            /\ nodeLive' = nodeLive \ {tmp}
            /\ blkLive' = blkLive \ remove_end_frees(tmp)
            /\ mem' = [a \in DOMAIN mem |->
                         IF a \in remove_end_frees(tmp) THEN NULL ELSE mem[a]]
            /\ net' = net - 1
       ELSE UNCHANGED <<first, last, next, prev, e, count, heapVars, net>>
    /\ UNCHANGED <<alloc, sort>>

\* Mutant: list_remove_head of the only node forgets list->last = NULL.
remove_head_link_last_kept ==
    IF first = NULL THEN Links(first, last, curr, next, prev)
    ELSE IF next[first] # NULL
         THEN Links(next[first], last, curr, next, [prev EXCEPT ![next[first]] = NULL])
         ELSE Links(NULL, last, curr, next, prev)

remove_head_link ==
    IF first = NULL THEN Links(first, last, curr, next, prev)
    ELSE IF next[first] # NULL
         THEN Links(next[first], last, curr, next, [prev EXCEPT ![next[first]] = NULL])
         ELSE Links(NULL, NULL, curr, next, prev)

\* Mutant: list_remove_tail of the only node forgets list->first = NULL.
remove_tail_link_first_kept ==
    IF last = NULL THEN Links(first, last, curr, next, prev)
    ELSE IF prev[last] # NULL
         THEN Links(first, prev[last], curr, [next EXCEPT ![prev[last]] = NULL], prev)
         ELSE Links(first, NULL, curr, next, prev)

\* Mutant: list_remove_tail forgets list->last->prev->next = NULL.
remove_tail_link_next_kept ==
    IF last = NULL THEN Links(first, last, curr, next, prev)
    ELSE IF prev[last] # NULL
         THEN Links(first, prev[last], curr, next, prev)
         ELSE Links(NULL, NULL, curr, next, prev)

remove_tail_link ==
    IF last = NULL THEN Links(first, last, curr, next, prev)
    ELSE IF prev[last] # NULL
         THEN Links(first, prev[last], curr, [next EXCEPT ![prev[last]] = NULL], prev)
         ELSE Links(NULL, NULL, curr, next, prev)

list_remove_head == RemoveEnd("remove_head", first, remove_head_curr, remove_head_link)

list_remove_tail == RemoveEnd("remove_tail", last, remove_tail_curr, remove_tail_link)

-----------------------------------------------------------------------------
(* list_release.                                                           *)

\* Mutant: the loop frees the nodes only.
RECURSIVE release_frees_nodes_only(_)
release_frees_nodes_only(le) ==
    IF le = NULL THEN <<>>
    ELSE <<le>> \o release_frees_nodes_only(next[le])

\* Release list elements: the addresses the while loop passes to free(), in
\* order (tmp->e in owning mode, then tmp, for every node from list->first).
RECURSIVE release_frees(_)
release_frees(le) ==
    IF le = NULL THEN <<>>
    ELSE (IF alloc /\ e[le] # NULL THEN <<e[le]>> ELSE <<>>)
         \o <<le>> \o release_frees(next[le])

\* The list instance itself is freed last: its fields are cleared like those
\* of every freed block.
list_release ==
    /\ sem_wait_enabled(sem)
    /\ LET fr == Range(release_frees(first)) IN
       /\ nodeLive' = nodeLive \ fr
       /\ blkLive' = blkLive \ fr
       /\ next' = [n \in Nodes |-> IF n \in fr THEN NULL ELSE next[n]]
       /\ prev' = [n \in Nodes |-> IF n \in fr THEN NULL ELSE prev[n]]
       /\ e' = [n \in Nodes |-> IF n \in fr THEN NULL ELSE e[n]]
       /\ mem' = [a \in DOMAIN mem |-> IF a \in fr THEN NULL ELSE mem[a]]
    /\ first' = NULL /\ last' = NULL /\ curr' = NULL
    /\ count' = 0
    /\ sem' = sem_post(sem_wait(sem))
    /\ Called("release", NULL, NULL)
    /\ WalkReset
    /\ UNCHANGED <<alloc, sort, net>>

-----------------------------------------------------------------------------
(* The sequential specification: one caller, every call runs to completion. *)

\* The references a caller can give to list_remove: its own buffers and, in
\* owning mode, the addresses of copies the list has returned to it.
Refs == IF alloc THEN Payloads ELSE Bufs

\* list_create: memset 0, alloc and sort as given, sem_init(&list->sem, 0, 1)
Init ==
    /\ alloc \in BOOLEAN
    /\ sort \in {"NULL", "lt"}
    /\ first = NULL /\ last = NULL /\ curr = NULL
    /\ count = 0
    /\ sem = sem_init
    /\ next = [n \in Nodes |-> NULL]
    /\ prev = [n \in Nodes |-> NULL]
    /\ e = [n \in Nodes |-> NULL]
    /\ nodeLive = {}
    /\ blkLive = {}
    /\ mem = [a \in Payloads |-> IF a \in Bufs THEN a ELSE NULL]
    /\ op = "create" /\ arg = NULL /\ ret = NULL
    /\ net = 0
    /\ walk = -1 /\ walkDone = FALSE
    /\ pc = [t \in Threads |-> "idle"]
    /\ fn = [t \in Threads |-> "none"]
    /\ bufOf = [t \in Threads |-> NULL]
    /\ eltOf = [t \in Threads |-> NULL]
    /\ tmpOf = [t \in Threads |-> NULL]
    /\ regOf = [t \in Threads |-> 0]
    /\ lin = <<>>
    /\ seen = [t \in Threads |-> <<>>]

Next ==
    \/ \E b \in Bufs : list_add(b)
    \/ \E b \in Bufs : list_add_head(b)
    \/ \E b \in Bufs : list_add_tail(b)
    \/ list_get_count
    \/ list_get_head
    \/ list_get_tail
    \/ list_get_next
    \/ list_get_prev
    \/ \E r \in Refs : list_remove(r)
    \/ list_remove_head
    \/ list_remove_tail

Spec == Init /\ [][Next]_vars

TypeOK ==
    /\ first \in Nodes \cup {NULL} /\ last \in Nodes \cup {NULL}
    /\ curr \in Nodes \cup {NULL}
    /\ count \in 0..NumNodes
    /\ sem \in {0, 1}
    /\ nodeLive \subseteq Nodes /\ blkLive \subseteq Blocks

\* A caller that never calls list_get_head nor list_get_tail.
NextNoNav ==
    \/ \E b \in Bufs : list_add(b)
    \/ \E b \in Bufs : list_add_head(b)
    \/ \E b \in Bufs : list_add_tail(b)
    \/ list_get_count
    \/ list_get_next
    \/ list_get_prev
    \/ \E r \in Refs : list_remove(r)
    \/ list_remove_head
    \/ list_remove_tail

SpecNoNav == Init /\ [][NextNoNav]_vars

\* The caller of examples/list_sort.c: a list created with the sort callback
\* and populated only through list_add.
InitSorted == Init /\ sort = "lt"

NextSorted ==
    \/ \E b \in Bufs : list_add(b)
    \/ list_get_count
    \/ list_get_head
    \/ list_get_tail
    \/ list_get_next
    \/ list_get_prev
    \/ \E r \in Refs : list_remove(r)
    \/ list_remove_head
    \/ list_remove_tail

SpecSorted == InitSorted /\ [][NextSorted]_vars

\* A caller that ends with list_release and does not touch the list after it.
Released == op = "release"

NextRelease ==
    \/ ~Released /\ Next
    \/ ~Released /\ list_release

SpecRelease == Init /\ [][NextRelease]_vars

\* The contents a buffer can hold.
Keys == 1..NumBufs

\* The caller overwrites one of its own buffers (the list is not called).
caller_write(b, k) ==
    /\ mem[b] # k
    /\ mem' = [mem EXCEPT ![b] = k]
    /\ op' = "write" /\ arg' = b /\ ret' = NULL
    /\ UNCHANGED <<alloc, sort, sem, listVars, nodeLive, blkLive, net, walk, walkDone, thrVars>>

\* A caller that appends to a list created without callback, reads the
\* head, and changes its buffers in between.
InitOwner == Init /\ sort = "NULL"

NextOwner ==
    \/ \E b \in Bufs : list_add_tail(b)
    \/ list_get_head
    \/ \E b \in Bufs, k \in Keys : caller_write(b, k)

SpecOwner == InitOwner /\ [][NextOwner]_vars

\* The same caller on a list created without callback.
InitUnsorted == Init /\ sort = "NULL"

SpecUnsorted == InitUnsorted /\ [][NextSorted]_vars

\* A caller that gives list_remove the element the cursor is on (the one it
\* got from its last head(), tail(), next() or prev()), or calls
\* list_remove_head.
NextAtCursor ==
    \/ \E b \in Bufs : list_add(b)
    \/ \E b \in Bufs : list_add_head(b)
    \/ \E b \in Bufs : list_add_tail(b)
    \/ list_get_head
    \/ list_get_tail
    \/ list_get_next
    \/ list_get_prev
    \/ curr # NULL /\ list_remove(e[curr])
    \/ list_remove_head

SpecAtCursor == Init /\ [][NextAtCursor]_vars

\* A caller that calls list_get_prev only once the cursor is NULL (it has
\* run off an end of the list, or has not positioned the cursor yet).
NextOffEnd ==
    \/ \E b \in Bufs : list_add(b)
    \/ \E b \in Bufs : list_add_head(b)
    \/ \E b \in Bufs : list_add_tail(b)
    \/ list_get_count
    \/ list_get_head
    \/ list_get_tail
    \/ list_get_next
    \/ curr = NULL /\ list_get_prev
    \/ \E r \in Refs : list_remove(r)
    \/ list_remove_head
    \/ list_remove_tail

SpecOffEnd == Init /\ [][NextOffEnd]_vars

-----------------------------------------------------------------------------
(* Concurrent callers.  Each thread executes one function at a time, one   *)
(* statement (or test and statement) per step; pc names the source line    *)
(* the thread is at.  list_create_element runs before sem_wait.            *)

Goto(t, l) == pc' = [pc EXCEPT ![t] = l]

\* The sequential effect of a call on the key sequence of the list.
SeqInsertAt(s, i, k) == SubSeq(s, 1, i - 1) \o <<k>> \o SubSeq(s, i, Len(s))

SeqCall(f, s, k) ==
    CASE f = "add_head" -> <<k>> \o s
      [] f = "add_tail" -> s \o <<k>>
      [] f = "add" ->
            IF sort = "NULL" \/ \A i \in 1..Len(s) : s[i] < k
            THEN s \o <<k>>
            ELSE SeqInsertAt(s, CHOOSE i \in 1..Len(s) :
                                   /\ ~(s[i] < k)
                                   /\ \A j \in 1..(i - 1) : s[j] < k, k)
      [] f = "remove_head" -> IF s = <<>> THEN s ELSE Tail(s)

\* list_add, list_add_head, list_add_tail up to sem_wait
T_create(t, f, b) ==
    /\ pc[t] = "idle"
    /\ \E n \in MallocNode, p \in MallocBlock :
          LET ce == list_create_element(b, n, p) IN
          /\ nodeLive' = ce.nodes
          /\ blkLive' = ce.blks
          /\ IF ce.le = NULL
             THEN UNCHANGED <<e, mem, pc, fn, bufOf, eltOf>>
             ELSE /\ e' = [e EXCEPT ![ce.le] = ce.pe]
                  /\ mem' = IF alloc THEN [mem EXCEPT ![ce.pe] = mem[b]] ELSE mem
                  /\ fn' = [fn EXCEPT ![t] = f]
                  /\ bufOf' = [bufOf EXCEPT ![t] = b]
                  /\ eltOf' = [eltOf EXCEPT ![t] = ce.le]
                  /\ Goto(t, "sem_wait")
    /\ UNCHANGED <<alloc, sort, sem, first, last, curr, count, next, prev,
                   histVars, tmpOf, regOf, lin, seen>>

\* list_remove_head up to sem_wait
T_call_remove_head(t) ==
    /\ pc[t] = "idle"
    /\ fn' = [fn EXCEPT ![t] = "remove_head"]
    /\ Goto(t, "sem_wait")
    /\ UNCHANGED <<alloc, sort, sem, listVars, heapVars, histVars,
                   bufOf, eltOf, tmpOf, regOf, lin, seen>>

Entry(f) ==
    CASE f = "add" -> "add_110"
      [] f = "add_head" -> "head_172"
      [] f = "add_tail" -> "tail_211"
      [] f = "remove_head" -> "rh_454"

T_sem_wait(t) ==
    /\ pc[t] = "sem_wait"
    /\ sem_wait_enabled(sem)
    /\ sem' = sem_wait(sem)
    /\ Goto(t, Entry(fn[t]))
    /\ lin' = SeqCall(fn[t], lin, IF bufOf[t] = NULL THEN NULL ELSE mem[bufOf[t]])
    /\ UNCHANGED <<alloc, sort, listVars, heapVars, histVars,
                   fn, bufOf, eltOf, tmpOf, regOf, seen>>

\* The statements of the guarded sections touch the list only.
BodyFrame == UNCHANGED <<alloc, sort, sem, e, mem, blkLive, histVars, fn, bufOf, eltOf, lin, seen>>

\* list_add: if (NULL == list->first) ... else if (NULL != list->sort) tmp = list->first ... else
T_add_110(t) ==
    /\ pc[t] = "add_110"
    /\ IF first = NULL
       THEN /\ first' = eltOf[t] /\ last' = eltOf[t] /\ curr' = eltOf[t]
            /\ Goto(t, "count_load")
            /\ UNCHANGED tmpOf
       ELSE /\ UNCHANGED <<first, last, curr>>
            /\ IF sort # "NULL"
               THEN tmpOf' = [tmpOf EXCEPT ![t] = first] /\ Goto(t, "add_114")
               ELSE UNCHANGED tmpOf /\ Goto(t, "append_1")
    /\ UNCHANGED <<count, next, prev, nodeLive, regOf>>
    /\ BodyFrame

\* list_add: one turn of the while loop
T_add_114(t) ==
    /\ pc[t] = "add_114"
    /\ IF tmpOf[t] = NULL
       THEN Goto(t, "append_1") /\ UNCHANGED tmpOf
       ELSE IF ~SortCb(e[tmpOf[t]], bufOf[t])
            THEN Goto(t, "add_118") /\ UNCHANGED tmpOf
            ELSE tmpOf' = [tmpOf EXCEPT ![t] = next[tmpOf[t]]] /\ UNCHANGED pc
    /\ UNCHANGED <<listVars, nodeLive, regOf>>
    /\ BodyFrame

\* list_add: if (NULL == tmp->prev) list->first = list_element
\*           else { tmp->prev->next = list_element; list_element->prev = tmp->prev; }
T_add_118(t) ==
    /\ pc[t] = "add_118"
    /\ IF prev[tmpOf[t]] = NULL
       THEN first' = eltOf[t] /\ UNCHANGED <<next, prev>>
       ELSE /\ next' = [next EXCEPT ![prev[tmpOf[t]]] = eltOf[t]]
            /\ prev' = [prev EXCEPT ![eltOf[t]] = prev[tmpOf[t]]]
            /\ UNCHANGED first
    /\ Goto(t, "add_124")
    /\ UNCHANGED <<last, curr, count, nodeLive, tmpOf, regOf>>
    /\ BodyFrame

\* list_add: list_element->next = tmp
T_add_124(t) ==
    /\ pc[t] = "add_124"
    /\ next' = [next EXCEPT ![eltOf[t]] = tmpOf[t]]
    /\ Goto(t, "add_125")
    /\ UNCHANGED <<first, last, curr, count, prev, nodeLive, tmpOf, regOf>>
    /\ BodyFrame

\* list_add: tmp->prev = list_element; goto ADDED
T_add_125(t) ==
    /\ pc[t] = "add_125"
    /\ prev' = [prev EXCEPT ![tmpOf[t]] = eltOf[t]]
    /\ Goto(t, "count_load")
    /\ UNCHANGED <<first, last, curr, count, next, nodeLive, tmpOf, regOf>>
    /\ BodyFrame

\* list_add_head: if (NULL == list->first) ... else list->first->prev = list_element
T_head_172(t) ==
    /\ pc[t] = "head_172"
    /\ IF first = NULL
       THEN /\ first' = eltOf[t] /\ last' = eltOf[t] /\ curr' = eltOf[t]
            /\ Goto(t, "count_load")
            /\ UNCHANGED prev
       ELSE /\ prev' = [prev EXCEPT ![first] = eltOf[t]]
            /\ Goto(t, "head_176")
            /\ UNCHANGED <<first, last, curr>>
    /\ UNCHANGED <<count, next, nodeLive, tmpOf, regOf>>
    /\ BodyFrame

\* list_add_head: list_element->next = list->first
T_head_176(t) ==
    /\ pc[t] = "head_176"
    /\ next' = [next EXCEPT ![eltOf[t]] = first]
    /\ Goto(t, "head_177")
    /\ UNCHANGED <<first, last, curr, count, prev, nodeLive, tmpOf, regOf>>
    /\ BodyFrame

\* list_add_head: list->first = list_element
T_head_177(t) ==
    /\ pc[t] = "head_177"
    /\ first' = eltOf[t]
    /\ Goto(t, "count_load")
    /\ UNCHANGED <<last, curr, count, next, prev, nodeLive, tmpOf, regOf>>
    /\ BodyFrame

\* list_add_tail: if (NULL == list->last) ... else list->last->next = list_element
T_tail_211(t) ==
    /\ pc[t] = "tail_211"
    /\ IF last = NULL
       THEN /\ first' = eltOf[t] /\ last' = eltOf[t] /\ curr' = eltOf[t]
            /\ Goto(t, "count_load")
            /\ UNCHANGED next
       ELSE /\ next' = [next EXCEPT ![last] = eltOf[t]]
            /\ Goto(t, "append_2")
            /\ UNCHANGED <<first, last, curr>>
    /\ UNCHANGED <<count, prev, nodeLive, tmpOf, regOf>>
    /\ BodyFrame

\* list_add, end of the list reached or no callback: list->last->next = list_element
T_append_1(t) ==
    /\ pc[t] = "append_1"
    /\ next' = [next EXCEPT ![last] = eltOf[t]]
    /\ Goto(t, "append_2")
    /\ UNCHANGED <<first, last, curr, count, prev, nodeLive, tmpOf, regOf>>
    /\ BodyFrame

\* list_element->prev = list->last
T_append_2(t) ==
    /\ pc[t] = "append_2"
    /\ prev' = [prev EXCEPT ![eltOf[t]] = last]
    /\ Goto(t, "append_3")
    /\ UNCHANGED <<first, last, curr, count, next, nodeLive, tmpOf, regOf>>
    /\ BodyFrame

\* list->last = list_element
T_append_3(t) ==
    /\ pc[t] = "append_3"
    /\ last' = eltOf[t]
    /\ Goto(t, "count_load")
    /\ UNCHANGED <<first, curr, count, next, prev, nodeLive, tmpOf, regOf>>
    /\ BodyFrame

\* list->count++ is a load and a store
T_count_load(t) ==
    /\ pc[t] = "count_load"
    /\ regOf' = [regOf EXCEPT ![t] = count]
    /\ Goto(t, "count_store")
    /\ UNCHANGED <<listVars, nodeLive, tmpOf>>
    /\ BodyFrame

T_count_store(t) ==
    /\ pc[t] = "count_store"
    /\ count' = regOf[t] + 1
    /\ Goto(t, "sem_post")
    /\ UNCHANGED <<first, last, curr, next, prev, nodeLive, tmpOf, regOf>>
    /\ BodyFrame

\* list_remove_head: update current element if required
T_rh_454(t) ==
    /\ pc[t] = "rh_454"
    /\ curr' = remove_head_curr
    /\ Goto(t, "rh_464")
    /\ UNCHANGED <<first, last, count, next, prev, nodeLive, tmpOf, regOf>>
    /\ BodyFrame

\* list_remove_head: update the list
T_rh_464(t) ==
    /\ pc[t] = "rh_464"
    /\ IF first = NULL
       THEN Goto(t, "sem_post") /\ UNCHANGED <<first, last, prev, tmpOf>>
       ELSE /\ tmpOf' = [tmpOf EXCEPT ![t] = first]
            /\ first' = remove_head_link.first
            /\ last' = remove_head_link.last
            /\ prev' = remove_head_link.prev
            /\ Goto(t, "rh_472")
    /\ UNCHANGED <<curr, count, next, nodeLive, regOf>>
    /\ BodyFrame

\* list_remove_head: list->count--; free(tmp)
T_rh_472(t) ==
    /\ pc[t] = "rh_472"
    /\ count' = count - 1
    /\ nodeLive' = nodeLive \ {tmpOf[t]}
    /\ next' = Freed(next, tmpOf[t])
    /\ prev' = Freed(prev, tmpOf[t])
    /\ e' = Freed(e, tmpOf[t])
    /\ Goto(t, "sem_post")
    /\ UNCHANGED <<alloc, sort, sem, first, last, curr, mem, blkLive, histVars,
                   fn, bufOf, eltOf, tmpOf, regOf, lin, seen>>

\* sem_post and return; the locals die
T_sem_post(t) ==
    /\ pc[t] = "sem_post"
    /\ sem' = sem_post(sem)
    /\ Goto(t, "idle")
    /\ fn' = [fn EXCEPT ![t] = "none"]
    /\ bufOf' = [bufOf EXCEPT ![t] = NULL]
    /\ eltOf' = [eltOf EXCEPT ![t] = NULL]
    /\ tmpOf' = [tmpOf EXCEPT ![t] = NULL]
    /\ regOf' = [regOf EXCEPT ![t] = 0]
    /\ UNCHANGED <<alloc, sort, listVars, heapVars, histVars, lin, seen>>

NextConc ==
    \/ \E t \in Threads, b \in Bufs : T_create(t, "add", b)
    \/ \E t \in Threads, b \in Bufs : T_create(t, "add_head", b)
    \/ \E t \in Threads, b \in Bufs : T_create(t, "add_tail", b)
    \/ \E t \in Threads : T_call_remove_head(t)
    \/ \E t \in Threads : T_sem_wait(t)
    \/ \E t \in Threads : T_add_110(t)
    \/ \E t \in Threads : T_add_114(t)
    \/ \E t \in Threads : T_add_118(t)
    \/ \E t \in Threads : T_add_124(t)
    \/ \E t \in Threads : T_add_125(t)
    \/ \E t \in Threads : T_head_172(t)
    \/ \E t \in Threads : T_head_176(t)
    \/ \E t \in Threads : T_head_177(t)
    \/ \E t \in Threads : T_tail_211(t)
    \/ \E t \in Threads : T_append_1(t)
    \/ \E t \in Threads : T_append_2(t)
    \/ \E t \in Threads : T_append_3(t)
    \/ \E t \in Threads : T_count_load(t)
    \/ \E t \in Threads : T_count_store(t)
    \/ \E t \in Threads : T_rh_454(t)
    \/ \E t \in Threads : T_rh_464(t)
    \/ \E t \in Threads : T_rh_472(t)
    \/ \E t \in Threads : T_sem_post(t)

SpecConc == Init /\ [][NextConc]_vars

-----------------------------------------------------------------------------
(* Properties.                                                             *)

AddOps == {"add", "add_head", "add_tail"}
RemoveOps == {"remove", "remove_head", "remove_tail"}

ElemsInList == Range(ElemsOf(Chain))

\* The node a step unlinks and frees / links (NULL if none).
Removed == IF nodeLive \ nodeLive' = {} THEN NULL ELSE CHOOSE n \in nodeLive \ nodeLive' : TRUE
Added == IF nodeLive' \ nodeLive = {} THEN NULL ELSE CHOOSE n \in nodeLive' \ nodeLive : TRUE

Ascending(k) == \A i \in 1..Len(k) : \A j \in 1..Len(k) : i < j => k[i] <= k[j]

FirstNode == Lowest(Nodes)

\* C1: count equals the successful adds minus the successful removes (also
\* as list_get_count returns it), the chain from first holds count nodes,
\* and a head() / next() traversal that has run to the NULL result has
\* visited exactly count elements.
C1_CountInvariant ==
    /\ count = net
    /\ Len(Chain) = count
    /\ (op = "get_count" => ret = net)
    /\ (walkDone => walk = count)

\* A traversal of two elements has ended on a list from which the element
\* allocated first has been removed.
C1_Witness ==
    walkDone /\ walk = 2 /\ FirstNode \notin nodeLive /\ Cardinality(nodeLive) = 2

\* C2: with the callback "existing < candidate" and a list populated only
\* through list_add, the chain is in ascending key order, and a traversal
\* from head() with next() returns the elements of the chain in that order.
C2_SortedAscending ==
    /\ Ascending(KeysOf(Chain))
    /\ (walk >= 1 /\ ~walkDone /\ op \in {"get_head", "get_next"}
           => walk <= Len(Chain) /\ ret = e[Chain[walk]])

\* Keys 2, 3, 1 inserted in this order (nodes allocated in address order)
\* and the traversal has returned the third element, key 3.
C2_Witness ==
    /\ Chain = <<FirstNode + 2, FirstNode, FirstNode + 1>>
    /\ KeysOf(Chain) = <<1, 2, 3>>
    /\ walk = 3 /\ op = "get_next" /\ mem[ret] = 3

\* C3: list_remove of a reference that is the payload of a node decrements
\* count by one and returns the payload of the node that followed the
\* removed one (NULL if it was the last).
C3_RemoveReturnsNextPayload ==
    [][(op' = "remove" /\ arg' \in ElemsInList)
        => LET tmp == remove_find(first, arg') IN
           /\ count' = count - 1
           /\ ret' = ElemOf(next[tmp])]_vars

\* C4 as claimed: in owning mode every removal frees the payload copy of
\* the removed element.
C4_EveryRemovalFreesCopy ==
    [][(alloc /\ op' \in RemoveOps /\ Removed # NULL)
        => e[Removed] \notin blkLive']_vars

\* C4 as amended: in owning mode list_remove frees the payload copy of the
\* removed element; list_remove_head and list_remove_tail free only the node
\* and return the copy, still allocated, to the caller.
C4_RemoveFreesCopyEndsReturnIt ==
    [][(alloc /\ op' \in RemoveOps /\ Removed # NULL)
        => /\ e[Removed] \in blkLive
           /\ op' = "remove" => blkLive' = blkLive \ {e[Removed]}
           /\ op' \in {"remove_head", "remove_tail"}
                 => blkLive' = blkLive /\ ret' = e[Removed]]_vars

\* list_remove_head has returned a copy that is still allocated and no longer
\* in the list.
C4_Witness ==
    alloc /\ op = "remove_head" /\ ret \in blkLive /\ ret \notin ElemsInList

\* C6: an insertion either returns -1 and leaves the chain, first, last,
\* curr, count, the guard and the set of allocated blocks as they were, or
\* returns 0 with the new node in the chain.
C6_AddAllOrNothing ==
    [][op' \in AddOps
        => \/ /\ ret' = -1
              /\ UNCHANGED <<listVars, heapVars, sem>>
           \/ /\ ret' = 0
              /\ Added # NULL
              /\ Added \in Range(Chain')
              /\ count' = count + 1
              /\ sem' = sem]_vars

\* An insertion has failed in owning mode with a node address free and no
\* address free for the copy: the node was allocated and freed again.
C6_Witness ==
    /\ op \in AddOps /\ ret = -1 /\ alloc
    /\ nodeLive # Nodes /\ blkLive = Blocks /\ count >= 1

\* C7: list_remove of a reference that is the payload of no node returns
\* NULL, changes neither the list nor the heap, and leaves the guard free.
C7_RemoveAbsentNoEffect ==
    [][(op' = "remove" /\ arg' \notin ElemsInList)
        => /\ ret' = NULL
           /\ UNCHANGED <<listVars, heapVars>>
           /\ sem' = sem_init]_vars

\* list_remove of an absent reference has returned on a full list whose
\* cursor is set.
C7_Witness ==
    /\ op = "remove" /\ ret = NULL /\ arg \notin ElemsInList
    /\ count = NumNodes /\ curr # NULL

\* C8 as claimed (for a caller that never calls head() nor tail()):
\* next() and prev() return NULL.
C8_NextEmptyWithoutHeadTail ==
    op \in {"get_next", "get_prev"} => ret = NULL

\* C8 as amended (for a caller that never calls head() nor tail()): the
\* cursor is NULL until an insertion into the empty list sets it, and
\* next() and prev() return NULL while it is NULL.
C8_CursorSetByFirstInsertion ==
    [][/\ (curr = NULL /\ curr' # NULL) => (op' \in AddOps /\ first = NULL)
       /\ (op' \in {"get_next", "get_prev"} /\ curr = NULL)
             => (ret' = NULL /\ curr' = NULL)]_vars

\* Without any head() or tail() call, next() has returned an element.
C8_Witness ==
    op = "get_next" /\ ret # NULL /\ count >= 2

C10_RemoveEnds ==
    [][/\ op' = "remove_head"
          => IF first = NULL
             THEN ret' = NULL /\ UNCHANGED <<listVars, heapVars>>
             ELSE /\ ret' = e[first]
                  /\ Removed = first
                  /\ Chain' = Tail(Chain)
                  /\ count' = count - 1
                  /\ \A n \in Range(Chain') : e'[n] = e[n]
       /\ op' = "remove_tail"
          => IF last = NULL
             THEN ret' = NULL /\ UNCHANGED <<listVars, heapVars>>
             ELSE /\ ret' = e[last]
                  /\ Removed = last
                  /\ Chain' = SubSeq(Chain, 1, Len(Chain) - 1)
                  /\ count' = count - 1
                  /\ \A n \in Range(Chain') : e'[n] = e[n]]_vars

\* After add_head of key 1 and add_head of key 2, list_remove_tail has
\* returned the element of key 1 and left the element of key 2.
C10_Witness ==
    /\ op = "remove_tail" /\ ret # NULL /\ mem[ret] = 1
    /\ count = 1 /\ KeysOf(Chain) = <<2>> /\ Chain = <<FirstNode + 1>>

\* Threads inside the guarded section of the function they execute.
InGuard == {t \in Threads : pc[t] \notin {"idle", "sem_wait"}}

Reverse(s) == [i \in 1..Len(s) |-> s[Len(s) + 1 - i]]

\* C5: with concurrent callers, at most one thread is inside a guarded
\* section, and whenever the guard is free the chain and count are those of
\* the calls executed one after the other in the order of their sem_wait:
\* no insertion is lost, and no thread enters while the chain is half linked.
C5_InsertionAtomic ==
    /\ sem \in {0, 1}
    /\ Cardinality(InGuard) = 1 - sem
    /\ sem = 1 => /\ KeysOf(Chain) = lin
                  /\ count = Len(lin)
                  /\ Chain = Reverse(BackFrom(last, NumNodes + 1))

\* A thread is between the link updates of a sorted insertion (the chain is
\* half linked) while another thread, its element created, waits at sem_wait.
C5_Witness ==
    \E t \in Threads, u \in Threads :
        /\ pc[t] = "add_124"
        /\ pc[u] = "sem_wait" /\ fn[u] = "add_tail"
        /\ Chain # Reverse(BackFrom(last, NumNodes + 1))

NoDup(s) == \A i \in 1..Len(s) : \A j \in 1..Len(s) : s[i] = s[j] => i = j

\* C11: list_release passes to free() every node of the chain and, in owning
\* mode, every payload copy stored in it, each exactly once and each still
\* allocated; afterwards no node is allocated and no copy that was stored is
\* (the copies list_remove_head / list_remove_tail returned stay the
\* caller's).
C11_ReleaseFreesAllOnce ==
    [][op' = "release"
        => LET fr == release_frees(first) IN
           /\ NoDup(fr)
           /\ Range(fr) \subseteq nodeLive \cup blkLive
           /\ Range(fr) = ChainNodes \cup (IF alloc THEN ElemsInList ELSE {})
           /\ nodeLive' = {}
           /\ blkLive' = blkLive \ ElemsInList
           /\ alloc => blkLive' \cap ElemsInList = {}]_vars

\* An owning list of two elements has been released after a third element
\* had been taken out with list_remove_head: its copy is the only block left.
C11_Witness ==
    /\ op = "release" /\ alloc /\ net = 2
    /\ nodeLive = {} /\ Cardinality(blkLive) = 1

\* C12: list_add_tail stores, in owning mode, a newly allocated block holding
\* the content the buffer has at the call, and in non-owning mode the
\* caller's reference itself; a later write of the caller to its buffer
\* leaves the content of every stored element as it was in owning mode and
\* changes the content seen through every stored reference to that buffer
\* in non-owning mode; list_get_head returns the stored reference of the
\* first node.
C12_OwnershipRoundTrip ==
    [][/\ \A b \in Bufs :
            (op' = "add_tail" /\ ret' = 0 /\ list_add_tail(b))
               => IF alloc
                  THEN /\ e'[Added] \in Blocks \ blkLive
                       /\ mem'[e'[Added]] = mem[b]
                  ELSE e'[Added] = b
       /\ op' = "write"
            => /\ e' = e
               /\ \A n \in ChainNodes :
                     IF alloc THEN mem'[e[n]] = mem[e[n]]
                     ELSE e[n] = arg' <=> mem'[e[n]] # mem[e[n]]
       /\ op' = "get_head"
            => /\ ret' = ElemOf(first)
               /\ ret' # NULL => mem'[ret'] = mem[ret']]_vars

\* In owning mode list_get_head has returned an element whose content no
\* buffer of the caller holds any more: every buffer was overwritten after
\* the insertion.
C12_Witness ==
    /\ alloc /\ op = "get_head" /\ ret \in Blocks
    /\ \A b \in Bufs : mem[b] # mem[ret]

\* C13: whatever the callback, a successful list_add_head makes the new node
\* the first of the chain and a successful list_add_tail makes it the last,
\* the other nodes keeping their order.
C13_HeadTailIgnoreSort ==
    [][/\ (op' = "add_head" /\ ret' = 0)
            => /\ Added # NULL /\ first' = Added
               /\ Chain' = <<Added>> \o Chain
       /\ (op' = "add_tail" /\ ret' = 0)
            => /\ Added # NULL /\ last' = Added
               /\ Chain' = Chain \o <<Added>>]_vars

\* On a list created with the callback, list_add_head of key 1 then of key 2:
\* the chain is key 2, key 1, against the order of the callback.
C13_Witness ==
    /\ sort = "lt" /\ op = "add_head" /\ ret = 0
    /\ Chain = <<FirstNode + 1, FirstNode>>
    /\ KeysOf(Chain) = <<2, 1>>

\* C14: on a list created without callback a successful list_add changes
\* first, last, curr and the links exactly as list_add_tail would: the new
\* node is appended, so the chain is in insertion order, and a traversal
\* from head() with next() returns the elements in that order.
C14_AddIsAddTailWithoutSort ==
    [][/\ (op' = "add" /\ ret' = 0)
            => /\ Added # NULL
               /\ Links(first', last', curr', next', prev') = add_tail_link(Added, e'[Added])
               /\ Chain' = Chain \o <<Added>>
       /\ (op' \in {"get_head", "get_next"} /\ walk' >= 1 /\ ~walkDone')
            => walk' <= Len(Chain') /\ ret' = e'[Chain'[walk']]]_vars

\* Keys 3, 1, 2 added in this order with list_add and no callback: the chain
\* holds them in this order and the traversal has returned the third.
C14_Witness ==
    /\ sort = "NULL"
    /\ Chain = <<FirstNode, FirstNode + 1, FirstNode + 2>>
    /\ KeysOf(Chain) = <<3, 1, 2>>
    /\ op = "get_next" /\ walk = 3 /\ mem[ret] = 2

NavOps == {"get_head", "get_tail", "get_next", "get_prev"}

\* C15: on a list of count 0, newly created or emptied by removals,
\* list_get_head, list_get_tail, list_get_next, list_get_prev,
\* list_remove_head and list_remove_tail return NULL and leave count at 0
\* (and the list and the heap as they were).
C15_EmptyListReturnsNull ==
    [][(count = 0 /\ op' \in NavOps \cup {"remove_head", "remove_tail"})
        => /\ ret' = NULL
           /\ count' = 0
           /\ UNCHANGED <<listVars, heapVars>>]_vars

\* An owning list was populated and emptied again with list_remove_head (the
\* copy it returned is still allocated); list_get_prev has then returned
\* NULL.
C15_Witness ==
    /\ alloc /\ blkLive # {} /\ nodeLive = {}
    /\ count = 0 /\ op = "get_prev" /\ ret = NULL

\* C16: the cursor is NULL or a node of the chain, which is allocated; it
\* never refers to a freed node.
C16_CursorInChain ==
    curr # NULL => curr \in ChainNodes /\ curr \in nodeLive

\* list_remove has freed the tail, the node allocated second, and the cursor
\* is on the node left.
C16_Witness ==
    /\ op = "remove" /\ ret = NULL /\ arg # NULL
    /\ Chain = <<FirstNode>> /\ curr = FirstNode
    /\ FirstNode + 1 \notin nodeLive

\* C17: between operations list->first is NULL iff list->last is NULL iff
\* count is 0.
C17_EmptyIffHeadTailNull ==
    /\ (first = NULL) <=> (last = NULL)
    /\ (first = NULL) <=> (count = 0)

\* A list emptied by a removal that returned an element.
C17_Witness ==
    /\ op = "remove_tail" /\ ret # NULL
    /\ first = NULL /\ last = NULL /\ count = 0

\* C20: a removal that frees the node the cursor is on moves the cursor,
\* list_remove to the predecessor of the node, list_remove_head to the new
\* first node, list_remove_tail to the new last node; a removal of another
\* node leaves the cursor as it was.
C20_CursorRepair ==
    [][(op' \in RemoveOps /\ Removed # NULL)
        => IF curr # Removed THEN curr' = curr
           ELSE /\ op' = "remove" => curr' = prev[Removed]
                /\ op' = "remove_head" => curr' = first' /\ curr' = next[Removed]
                /\ op' = "remove_tail" => curr' = last' /\ curr' = prev[Removed]]_vars

\* list_remove has freed the middle node of three (the node after it is
\* returned) and the cursor is on the first node, its predecessor.
C20_Witness ==
    /\ op = "remove" /\ ret = FirstNode + 2
    /\ Chain = <<FirstNode, FirstNode + 2>>
    /\ curr = FirstNode

\* The positions of the chain whose element the callback rejects for b.
SortFalseAt(b) == {i \in 1..Len(Chain) : ~SortCb(e[Chain[i]], b)}

-----------------------------------------------------------------------------
(* Concurrent callers of every public function.  A call is three steps:    *)
(* the part before sem_wait (T_create for the insertions), sem_wait with   *)
(* the guarded section, which no other thread can observe half done while  *)
(* the guard is held, and the sem_post of the return path taken.           *)

GuardFns == {"remove", "remove_tail", "get_count", "release"} \cup NavOps

\* A function that allocates nothing before sem_wait is called with the
\* reference r (list_remove) or without argument.  list_release is called
\* when no other call is running, and no call follows it.
G_call(t, f, r) ==
    /\ pc[t] = "idle"
    /\ f = "release" => \A u \in Threads : pc[u] = "idle"
    /\ (f = "remove") <=> (r # NULL)
    /\ fn' = [fn EXCEPT ![t] = f]
    /\ bufOf' = [bufOf EXCEPT ![t] = r]
    /\ Goto(t, "sem_wait")
    /\ UNCHANGED <<alloc, sort, sem, listVars, heapVars, histVars, eltOf, tmpOf, regOf, lin, seen>>

\* sem_wait of a thread executing one of the functions fs; it goes on to l.
GuardEnter(t, fs, l) ==
    /\ pc[t] = "sem_wait"
    /\ fn[t] \in fs
    /\ sem_wait_enabled(sem)
    /\ sem' = sem_wait(sem)
    /\ Goto(t, l)
    /\ UNCHANGED <<alloc, sort, histVars, fn, bufOf, eltOf, tmpOf, regOf, lin, seen>>

\* list_add, list_add_head, list_add_tail: add element to the list
G_add(t) ==
    /\ GuardEnter(t, AddOps, "sem_post")
    /\ LET lk == CASE fn[t] = "add" -> add_link(eltOf[t], bufOf[t])
                   [] fn[t] = "add_head" -> add_head_link(eltOf[t], bufOf[t])
                   [] fn[t] = "add_tail" -> add_tail_link(eltOf[t], bufOf[t])
       IN /\ first' = lk.first
          /\ last' = lk.last
          /\ curr' = lk.curr
          /\ next' = lk.next
          /\ prev' = lk.prev
    /\ count' = count + 1
    /\ UNCHANGED <<e, heapVars>>

\* list_remove: the element is not part of the list
G_remove_notfound(t) ==
    /\ GuardEnter(t, {"remove"}, "remove_395")
    /\ remove_find(first, bufOf[t]) = NULL
    /\ UNCHANGED <<listVars, heapVars>>

\* list_remove: the element is unlinked and freed
G_remove(t) ==
    /\ GuardEnter(t, {"remove"}, "sem_post")
    /\ LET tmp == remove_find(first, bufOf[t]) IN
       /\ tmp # NULL
       /\ first' = IF tmp = first THEN next[tmp] ELSE first
       /\ last' = IF tmp = last THEN prev[tmp] ELSE last
       /\ curr' = remove_curr(tmp)
       /\ next' = Freed(IF prev[tmp] # NULL
                        THEN [next EXCEPT ![prev[tmp]] = next[tmp]]
                        ELSE next, tmp)
       /\ prev' = Freed(IF next[tmp] # NULL
                        THEN [prev EXCEPT ![next[tmp]] = prev[tmp]]
                        ELSE prev, tmp)
       /\ count' = count - 1
       /\ e' = Freed(e, tmp)
       /\ blkLive' = blkLive \ remove_frees(tmp)
       /\ mem' = [a \in DOMAIN mem |->
                    IF a \in remove_frees(tmp) THEN NULL ELSE mem[a]]
       /\ nodeLive' = nodeLive \ {tmp}

\* list_remove_head, list_remove_tail
G_remove_end(t) ==
    /\ GuardEnter(t, {"remove_head", "remove_tail"}, "sem_post")
    /\ LET tmp == IF fn[t] = "remove_head" THEN first ELSE last
           lk == IF fn[t] = "remove_head" THEN remove_head_link ELSE remove_tail_link
       IN /\ curr' = IF fn[t] = "remove_head" THEN remove_head_curr ELSE remove_tail_curr
          /\ IF tmp # NULL
             THEN /\ first' = lk.first
                  /\ last' = lk.last
                  /\ next' = Freed(lk.next, tmp)
                  /\ prev' = Freed(lk.prev, tmp)
                  /\ e' = Freed(e, tmp)
                  /\ count' = count - 1
                  /\ nodeLive' = nodeLive \ {tmp}
                  /\ UNCHANGED <<blkLive, mem>>
             ELSE UNCHANGED <<first, last, next, prev, e, count, heapVars>>

\* list_get_head, list_get_tail, list_get_next, list_get_prev
G_nav(t) ==
    /\ GuardEnter(t, NavOps, "sem_post")
    /\ curr' = CASE fn[t] = "get_head" -> first
                 [] fn[t] = "get_tail" -> last
                 [] fn[t] = "get_next" -> get_next_curr
                 [] fn[t] = "get_prev" -> get_prev_curr
    /\ UNCHANGED <<first, last, count, next, prev, e, heapVars>>

\* list_get_count
G_count(t) ==
    /\ GuardEnter(t, {"get_count"}, "sem_post")
    /\ UNCHANGED <<listVars, heapVars>>

\* list_release: release list elements
G_release(t) ==
    /\ GuardEnter(t, {"release"}, "release_551")
    /\ LET fr == Range(release_frees(first)) IN
       /\ nodeLive' = nodeLive \ fr
       /\ blkLive' = blkLive \ fr
       /\ next' = [n \in Nodes |-> IF n \in fr THEN NULL ELSE next[n]]
       /\ prev' = [n \in Nodes |-> IF n \in fr THEN NULL ELSE prev[n]]
       /\ e' = [n \in Nodes |-> IF n \in fr THEN NULL ELSE e[n]]
       /\ mem' = [a \in DOMAIN mem |-> IF a \in fr THEN NULL ELSE mem[a]]
    /\ UNCHANGED <<first, last, curr, count>>

\* The locals of a call die when it returns.
GuardReturn(t) ==
    /\ Goto(t, "idle")
    /\ fn' = [fn EXCEPT ![t] = "none"]
    /\ bufOf' = [bufOf EXCEPT ![t] = NULL]
    /\ eltOf' = [eltOf EXCEPT ![t] = NULL]
    /\ UNCHANGED <<alloc, sort, heapVars, tmpOf, regOf, lin, seen>>

\* Mutant: the not-found return of list_remove forgets sem_post.
remove_notfound_post_missing(s) == s

\* list_remove: sem_post of the not-found return
remove_notfound_post(s) == sem_post(s)

\* list_remove: sem_post(&list->sem); return NULL
G_remove_notfound_return(t) ==
    /\ pc[t] = "remove_395"
    /\ sem' = remove_notfound_post(sem)
    /\ GuardReturn(t)
    /\ UNCHANGED <<listVars, histVars>>

\* list_release: sem_post, sem_close, free(list)
G_release_return(t) ==
    /\ pc[t] = "release_551"
    /\ sem' = sem_post(sem)
    /\ first' = NULL /\ last' = NULL /\ curr' = NULL
    /\ count' = 0
    /\ op' = "release"
    /\ GuardReturn(t)
    /\ UNCHANGED <<next, prev, e, arg, ret, net, walk, walkDone>>

\* The steps of the calls in progress.
GuardProgress ==
    \/ \E t \in Threads : G_add(t)
    \/ \E t \in Threads : G_remove_notfound(t)
    \/ \E t \in Threads : G_remove(t)
    \/ \E t \in Threads : G_remove_end(t)
    \/ \E t \in Threads : G_nav(t)
    \/ \E t \in Threads : G_count(t)
    \/ \E t \in Threads : G_release(t)
    \/ \E t \in Threads : T_sem_post(t)
    \/ \E t \in Threads : G_remove_notfound_return(t)
    \/ \E t \in Threads : G_release_return(t)

\* The element a thread adds: each thread has a buffer of its own.
OwnBuf(t) == Lowest(Bufs) + ((t - 1) % NumBufs)

\* The callers share a non-owning list created with the callback.
InitGuard == Init /\ ~alloc /\ sort = "lt"

\* A call can start while the list exists: list_release has neither
\* returned nor been called.
CanCall == ~Released /\ \A u \in Threads : fn[u] # "release"

NextGuard ==
    \/ \E t \in Threads : CanCall /\ T_create(t, "add", OwnBuf(t))
    \/ \E t \in Threads : CanCall /\ T_create(t, "add_head", OwnBuf(t))
    \/ \E t \in Threads : CanCall /\ T_create(t, "add_tail", OwnBuf(t))
    \/ \E t \in Threads : CanCall /\ T_call_remove_head(t)
    \/ \E t \in Threads, f \in GuardFns, r \in Bufs \cup {NULL} : CanCall /\ G_call(t, f, r)
    \/ GuardProgress

SpecGuard == InitGuard /\ [][NextGuard]_vars

\* C19: with concurrent callers of every public function, the guard value
\* is 0 or 1, it is 0 exactly while one thread (never two) is between its
\* sem_wait and its sem_post, so it is 1 whenever no call is in progress,
\* and whenever a call is in progress some call in progress can take a
\* step: no state is a deadlock.
C19_GuardReleasedNoDeadlock ==
    /\ sem \in {0, 1}
    /\ Cardinality(InGuard) = 1 - sem
    /\ (\A t \in Threads : pc[t] = "idle") => sem = sem_init
    /\ (\E t \in Threads : pc[t] # "idle") => ENABLED GuardProgress

\* A thread is on the not-found return of list_remove, the guard still
\* held, while another thread waits at sem_wait.
C19_Witness ==
    \E t \in Threads, u \in Threads :
        /\ pc[t] = "remove_395" /\ sem = 0
        /\ pc[u] = "sem_wait" /\ count >= 1

-----------------------------------------------------------------------------
(* Concurrent traversals, as the loop of examples/list_sort.c run by every *)
(* thread: head(), then next() until NULL, on a list nobody modifies.      *)

LastOf(s) == s[Len(s)]

\* The traversal of thread t has got NULL.
WalkEnded(t) == seen[t] # <<>> /\ LastOf(seen[t]) = NULL

\* The list is populated with list_add before any traversal starts.
W_populate(b) ==
    /\ \A t \in Threads : pc[t] = "idle" /\ seen[t] = <<>>
    /\ list_add(b)

\* e = list_get_head(list)
W_call_head(t) ==
    /\ seen[t] = <<>>
    /\ G_call(t, "get_head", NULL)

\* while (NULL != e) ... e = list_get_next(list)
W_call_next(t) ==
    /\ seen[t] # <<>>
    /\ ~WalkEnded(t)
    /\ G_call(t, "get_next", NULL)

\* list_get_head / list_get_next: sem_wait, the cursor is moved and its
\* element is the return value.
W_nav(t) ==
    /\ pc[t] = "sem_wait"
    /\ fn[t] \in {"get_head", "get_next"}
    /\ sem_wait_enabled(sem)
    /\ sem' = sem_wait(sem)
    /\ Goto(t, "sem_post")
    /\ LET c == IF fn[t] = "get_head" THEN first ELSE get_next_curr IN
       /\ curr' = c
       /\ seen' = [seen EXCEPT ![t] = Append(@, ElemOf(c))]
    /\ UNCHANGED <<alloc, sort, first, last, count, next, prev, e, heapVars, histVars,
                   fn, bufOf, eltOf, tmpOf, regOf, lin>>

NextWalk ==
    \/ \E b \in Bufs : W_populate(b)
    \/ \E t \in Threads : W_call_head(t)
    \/ \E t \in Threads : W_call_next(t)
    \/ \E t \in Threads : W_nav(t)
    \/ \E t \in Threads : T_sem_post(t)

SpecWalk == InitGuard /\ [][NextWalk]_vars

\* C21: the cursor is one field of the list: every head() / next() of a
\* thread returns the element of the cursor as that call leaves it, and
\* next() moves the cursor one node on from where the last call of any
\* thread left it.  A traversal therefore visits every element exactly once,
\* in order, when no other thread has navigated, and it can do otherwise
\* when another thread has.
C21_TraversalFollowsSharedCursor ==
    [][\A t \in Threads :
          /\ seen'[t] # seen[t]
                => /\ seen'[t] = Append(seen[t], ElemOf(curr'))
                   /\ fn[t] = "get_head" => curr' = first
                   /\ fn[t] = "get_next"
                         => curr' = IF curr # NULL THEN next[curr] ELSE NULL
          /\ (seen'[t] # seen[t] /\ LastOf(seen'[t]) = NULL
                /\ \A u \in Threads \ {t} : seen'[u] = <<>>)
                => seen'[t] = Append(ElemsOf(Chain), NULL)]_vars

\* On a list of three elements a traversal has ended after fewer than three
\* elements: the other thread moved the cursor in between.
C21_Witness ==
    \E t \in Threads :
        /\ WalkEnded(t) /\ count = NumNodes
        /\ Len(seen[t]) - 1 < count

\* C22: between operations the links are well formed: the first node has no
\* predecessor and the last no successor, each node of the chain is the
\* predecessor of its successor, no node occurs twice in the chain, and the
\* walk along prev from list->last visits the nodes of the chain in reverse
\* order.
C22_LinksWellFormed ==
    /\ first # NULL => prev[first] = NULL
    /\ last # NULL => next[last] = NULL
    /\ \A i \in 1..(Len(Chain) - 1) : prev[Chain[i + 1]] = Chain[i]
    /\ NoDup(Chain)
    /\ BackFrom(last, NumNodes + 1) = Reverse(Chain)

\* list_add with the callback has linked the node allocated last between
\* the two others.
C22_Witness ==
    /\ op = "add" /\ ret = 0
    /\ Chain = <<FirstNode, FirstNode + 2, FirstNode + 1>>
    /\ BackFrom(last, NumNodes + 1) = <<FirstNode + 1, FirstNode + 2, FirstNode>>

\* C23: when list_remove frees the node the cursor is on, the cursor goes to
\* the predecessor of the node, so that the next list_get_next returns the
\* element of the node that followed it; if the node was the first, the
\* cursor is NULL and the next list_get_next returns NULL whatever the list
\* holds.  list_remove_head of the node the cursor is on moves the cursor to
\* the new first node.  list_get_next returns the element of the successor
\* of the cursor, NULL if the cursor is NULL.
C23_NextAfterRemoveAtCursor ==
    [][/\ (op' = "remove" /\ Removed # NULL /\ Removed = curr)
            => IF Removed = first
               THEN /\ curr' = NULL
                    /\ ElemOf(get_next_curr)' = NULL
               ELSE /\ curr' = prev[Removed]
                    /\ get_next_curr' = next[Removed]
                    /\ ElemOf(get_next_curr)' = ElemOf(next[Removed])
       /\ (op' = "remove_head" /\ Removed # NULL /\ Removed = curr)
            => curr' = first' /\ curr' = next[Removed]
       /\ op' = "get_next"
            => /\ curr' = (IF curr # NULL THEN next[curr] ELSE NULL)
               /\ ret' = ElemOf(curr')]_vars

\* list_remove was given the element of the cursor and has left the cursor
\* NULL (the node was the first) on a list that still holds two elements: a
\* list_get_next now returns NULL.
C23_Witness ==
    /\ op = "remove" /\ ret # NULL
    /\ curr = NULL /\ count = 2
    /\ ElemOf(get_next_curr) = NULL

\* C24: while the cursor is NULL, list_get_next and list_get_prev return
\* NULL and leave it NULL, whatever the list holds; the cursor leaves NULL
\* only by list_get_head, list_get_tail, or an insertion into the empty
\* list.
C24_NullCursorAbsorbing ==
    [][/\ (curr = NULL /\ op' \in {"get_next", "get_prev"})
            => ret' = NULL /\ curr' = NULL
       /\ (curr = NULL /\ curr' # NULL)
            => \/ op' \in {"get_head", "get_tail"} /\ first # NULL
               \/ op' \in AddOps /\ first = NULL]_vars

\* list_get_prev, called with the cursor NULL on a full list, has returned
\* NULL, not the last element.
C24_Witness ==
    /\ op = "get_prev" /\ ret = NULL /\ curr = NULL
    /\ count = NumNodes /\ last # NULL

=============================================================================
